---- MODULE Spec2Model ----
(***************************************************************************)
(* TTFP / TTI measurement pipeline of src/App.tsx.                         *)
(*                                                                         *)
(* The JS thread is single-threaded: every callback (effect, rAF callback, *)
(* timeout callback) runs to completion, so each is one action.  The host  *)
(* (React, the compositor, the macrotask queue, the wall clock) is the     *)
(* environment: it mounts / unmounts / re-renders the App component, runs  *)
(* its effect, fires the queued callbacks and moves Date.now().            *)
(*                                                                         *)
(* `number | null` values are sequences: <<>> is null, <<n>> is n.         *)
(***************************************************************************)
EXTENDS Integers, Sequences, FiniteSets, TLC

\* ---- bounds of the model -------------------------------------------------
\* host events in one run: clock changes, mounts of App and runs of its effect
MaxEvents == 5

\* Date.now() when the bundle starts, and the amounts by which the clock
\* moves forward (Tick) or is set back (ClockAdjust)
StartTimes == {1000}
Deltas == {6, 142}
Adjusts == {6}

\* component instances React may create (one per mount)
Instances == 1..MaxEvents

VARIABLES
    now,        \* Date.now(): the wall clock, in ms
    events,     \* host events so far (bounded by MaxEvents)
    perfT0,     \* global.__PERF_T0: <<>> while unset
    T0,         \* module constant T0 of App.tsx: <<>> until the module is evaluated
    mounted,    \* the mounted App instance, 0 when none is mounted
    mounts,     \* App instances created so far
    measured,   \* measured.current of each instance (useRef)
    ttfp,       \* ttfp state of each instance (useState)
    tti,        \* tti state of each instance (useState)
    effects,    \* effect-callback invocations on each instance
    rafQ,       \* pending requestAnimationFrame callbacks (instance ids, FIFO)
    timerQ,     \* pending setTimeout(0) callbacks, FIFO: instance id i for the idle
                \* continuation of i's chain, -k for the k-th item of other work
    rafCalls,   \* requestAnimationFrame calls made so far by each instance's effect
    timerCalls, \* setTimeout calls made so far by each instance's callbacks
    log,        \* console.log lines, each with the instance and clock that produced it
    workEnq,    \* items of other work enqueued so far (item k is the k-th)
    workDone,   \* the items of other work that have run
    aheadAt,    \* per instance: workEnq when its idle continuation was scheduled
    doneAt      \* per instance: workDone when its idle continuation ran

vars == <<now, events, perfT0, T0, mounted, mounts, measured, ttfp, tti,
          effects, rafQ, timerQ, rafCalls, timerCalls, log,
          workEnq, workDone, aheadAt, doneAt>>

clockVars == <<now>>
originVars == <<perfT0, T0>>
hostVars == <<mounted, mounts>>
hookVars == <<measured, ttfp, tti, effects>>
queueVars == <<rafQ, timerQ, rafCalls, timerCalls>>
workVars == <<workEnq, workDone, aheadAt, doneAt>>

\* ---- pure pieces of the code ---------------------------------------------

\* (global as any).__PERF_T0 ?? Date.now()
OriginAlwaysNow(g, t) == t
OriginOrNow(g, t) == IF g # <<>> THEN g[1] ELSE t

\* Date.now() - T0
ElapsedSwapped(t, origin) == origin - t
Elapsed(t, origin) == t - origin

\* `[PERF] TTFP: ${ttfpMs}ms`
TtfpLine(ms) == "[PERF] TTFP: " \o ToString(ms) \o "ms"

\* `[PERF] TTI:  ${ttiMs}ms`
TtiLineOneSpace(ms) == "[PERF] TTI: " \o ToString(ms) \o "ms"
TtiLine(ms) == "[PERF] TTI:  " \o ToString(ms) \o "ms"

\* {v !== null ? `${v} ms` : 'measuring...'}
SlotTruthy(v) == IF v # <<>> /\ v[1] # 0 THEN ToString(v[1]) \o " ms" ELSE "measuring..."
Slot(v) == IF v # <<>> THEN ToString(v[1]) \o " ms" ELSE "measuring..."

\* the two text lines PerfBanner renders for props ttfp, tti
PerfBanner(p, i) == <<"TTFP: " \o Slot(p), "TTI:  " \o Slot(i)>>

\* if (measured.current) return;
GuardNever(flag) == FALSE
AlreadyMeasured(flag) == flag

\* a state setter: React drops the update of a component that is no longer mounted
SetState(slots, i, v) == IF mounted = i THEN [slots EXCEPT ![i] = <<v>>] ELSE slots

\* ---- initial state -------------------------------------------------------
\* the process has started; no script statement has run yet
Init ==
    /\ now \in StartTimes
    /\ events = 0
    /\ perfT0 = <<>>
    /\ T0 = <<>>
    /\ mounted = 0
    /\ mounts = 0
    /\ measured = [i \in Instances |-> FALSE]
    /\ ttfp = [i \in Instances |-> <<>>]
    /\ tti = [i \in Instances |-> <<>>]
    /\ effects = [i \in Instances |-> 0]
    /\ rafQ = <<>>
    /\ timerQ = <<>>
    /\ rafCalls = [i \in Instances |-> 0]
    /\ timerCalls = [i \in Instances |-> 0]
    /\ log = <<>>
    /\ workEnq = 0
    /\ workDone = {}
    /\ aheadAt = [i \in Instances |-> 0]
    /\ doneAt = [i \in Instances |-> {}]

\* ---- the environment -----------------------------------------------------

\* the wall clock advances
Tick ==
    /\ events < MaxEvents
    /\ \E d \in Deltas : now' = now + d
    /\ events' = events + 1
    /\ UNCHANGED <<workVars, originVars, hostVars, hookVars, queueVars, log>>

\* the wall clock is set back (Date.now() is the system time, not a monotonic clock)
ClockAdjust ==
    /\ events < MaxEvents
    /\ \E d \in Adjusts : now' = now - d
    /\ events' = events + 1
    /\ UNCHANGED <<workVars, originVars, hostVars, hookVars, queueVars, log>>

\* index.js, first line: global.__PERF_T0 = Date.now()
SetPerfT0 ==
    /\ perfT0 = <<>>
    /\ perfT0' = <<now>>
    /\ UNCHANGED <<workVars, clockVars, events, T0, hostVars, hookVars, queueVars, log>>

\* T0 evaluated again on a later read instead of once at module evaluation
ModuleLoadAgain ==
    /\ T0' = <<OriginOrNow(perfT0, now)>>
    /\ UNCHANGED <<workVars, clockVars, events, perfT0, hostVars, hookVars, queueVars, log>>

\* App.tsx is evaluated: const T0 = global.__PERF_T0 ?? Date.now()
ModuleLoad ==
    /\ T0 = <<>>
    /\ T0' = <<OriginOrNow(perfT0, now)>>
    /\ UNCHANGED <<workVars, clockVars, events, perfT0, hostVars, hookVars, queueVars, log>>

\* React mounts App: a new component instance, its useState slots null and its
\* useRef false
Mount ==
    /\ T0 # <<>>
    /\ mounted = 0
    /\ events < MaxEvents
    /\ events' = events + 1
    /\ mounts' = mounts + 1
    /\ mounted' = mounts + 1
    /\ UNCHANGED <<workVars, clockVars, originVars, hookVars, queueVars, log>>

\* the effect returns no cleanup function: unmounting cancels nothing
UnmountWithCleanup ==
    /\ mounted # 0
    /\ mounted' = 0
    /\ rafQ' = SelectSeq(rafQ, LAMBDA j : j # mounted)
    /\ timerQ' = SelectSeq(timerQ, LAMBDA j : j # mounted)
    /\ UNCHANGED <<workVars, clockVars, events, originVars, mounts, hookVars, rafCalls, timerCalls, log>>

\* React unmounts App
Unmount ==
    /\ mounted # 0
    /\ mounted' = 0
    /\ UNCHANGED <<workVars, clockVars, events, originVars, mounts, hookVars, queueVars, log>>

\* ---- the hook ------------------------------------------------------------

\* the effect measuring TTFP itself instead of waiting for the compositor tick
EffectCallbackNoRaf ==
    /\ mounted # 0
    /\ events < MaxEvents
    /\ events' = events + 1
    /\ effects' = [effects EXCEPT ![mounted] = @ + 1]
    /\ IF AlreadyMeasured(measured[mounted])
       THEN UNCHANGED <<measured, ttfp, log, queueVars>>
       ELSE /\ measured' = [measured EXCEPT ![mounted] = TRUE]
            /\ ttfp' = SetState(ttfp, mounted, Elapsed(now, T0[1]))
            /\ log' = Append(log, [text |-> TtfpLine(Elapsed(now, T0[1])), kind |-> "TTFP",
                                   inst |-> mounted, at |-> now])
            /\ timerQ' = Append(timerQ, mounted)
            /\ timerCalls' = [timerCalls EXCEPT ![mounted] = @ + 1]
            /\ UNCHANGED <<rafQ, rafCalls>>
    /\ UNCHANGED <<workVars, clockVars, originVars, hostVars, tti>>

\* the effect without measured.current = true
EffectCallbackNoFlag ==
    /\ mounted # 0
    /\ events < MaxEvents
    /\ events' = events + 1
    /\ effects' = [effects EXCEPT ![mounted] = @ + 1]
    /\ IF AlreadyMeasured(measured[mounted])
       THEN UNCHANGED <<measured, queueVars>>
       ELSE /\ rafQ' = Append(rafQ, mounted)
            /\ rafCalls' = [rafCalls EXCEPT ![mounted] = @ + 1]
            /\ UNCHANGED <<measured, timerQ, timerCalls>>
    /\ UNCHANGED <<workVars, clockVars, originVars, hostVars, ttfp, tti, log>>

\* the effect with setTimeout moved out of the rAF callback
EffectCallbackUnnested ==
    /\ mounted # 0
    /\ events < MaxEvents
    /\ events' = events + 1
    /\ effects' = [effects EXCEPT ![mounted] = @ + 1]
    /\ IF AlreadyMeasured(measured[mounted])
       THEN UNCHANGED <<measured, queueVars>>
       ELSE /\ measured' = [measured EXCEPT ![mounted] = TRUE]
            /\ rafQ' = Append(rafQ, mounted)
            /\ rafCalls' = [rafCalls EXCEPT ![mounted] = @ + 1]
            /\ timerQ' = Append(timerQ, mounted)
            /\ timerCalls' = [timerCalls EXCEPT ![mounted] = @ + 1]
    /\ UNCHANGED <<workVars, clockVars, originVars, hostVars, ttfp, tti, log>>

\* React runs the callback of React.useEffect(..., []) for the mounted instance:
\* after its mount, and again when the host replays the effect on the same
\* instance
EffectCallback ==
    /\ mounted # 0
    /\ events < MaxEvents
    /\ events' = events + 1
    /\ effects' = [effects EXCEPT ![mounted] = @ + 1]
    /\ IF AlreadyMeasured(measured[mounted])
       THEN UNCHANGED <<measured, queueVars>>
       ELSE /\ measured' = [measured EXCEPT ![mounted] = TRUE]
            /\ rafQ' = Append(rafQ, mounted)
            /\ rafCalls' = [rafCalls EXCEPT ![mounted] = @ + 1]
            /\ UNCHANGED <<timerQ, timerCalls>>
    /\ UNCHANGED <<workVars, clockVars, originVars, hostVars, ttfp, tti, log>>

\* App re-renders: useState and useRef return the instance's values, and the
\* effect's dependency list [] has not changed, so the effect is not run
Rerender ==
    /\ mounted # 0
    /\ UNCHANGED vars

\* the rAF callback computing TTI in place instead of deferring it
RafCallbackSyncIdle ==
    /\ rafQ # <<>>
    /\ LET i == Head(rafQ)
           ttfpMs == Elapsed(now, T0[1])
       IN /\ rafQ' = Tail(rafQ)
          /\ ttfp' = SetState(ttfp, i, ttfpMs)
          /\ tti' = SetState(tti, i, ttfpMs)
          /\ log' = log \o <<[text |-> TtfpLine(ttfpMs), kind |-> "TTFP", inst |-> i, at |-> now],
                             [text |-> TtiLine(ttfpMs), kind |-> "TTI", inst |-> i, at |-> now]>>
    /\ UNCHANGED <<workVars, clockVars, events, originVars, hostVars, measured, effects,
                   timerQ, rafCalls, timerCalls>>

\* the rAF callback queueing the idle continuation ahead of the queued tasks (a
\* microtask instead of setTimeout)
RafCallbackMicrotask ==
    /\ rafQ # <<>>
    /\ LET i == Head(rafQ)
           ttfpMs == Elapsed(now, T0[1])
       IN /\ rafQ' = Tail(rafQ)
          /\ ttfp' = SetState(ttfp, i, ttfpMs)
          /\ log' = Append(log, [text |-> TtfpLine(ttfpMs), kind |-> "TTFP",
                                 inst |-> i, at |-> now])
          /\ timerQ' = <<i>> \o timerQ
          /\ timerCalls' = [timerCalls EXCEPT ![i] = @ + 1]
          /\ aheadAt' = [aheadAt EXCEPT ![i] = workEnq]
    /\ UNCHANGED <<workEnq, workDone, doneAt, clockVars, events, originVars, hostVars,
                   measured, tti, effects, rafCalls>>

\* the compositor tick runs the oldest pending requestAnimationFrame callback
RafCallback ==
    /\ rafQ # <<>>
    /\ LET i == Head(rafQ)
           ttfpMs == Elapsed(now, T0[1])
       IN /\ rafQ' = Tail(rafQ)
          /\ ttfp' = SetState(ttfp, i, ttfpMs)
          /\ log' = Append(log, [text |-> TtfpLine(ttfpMs), kind |-> "TTFP",
                                 inst |-> i, at |-> now])
          /\ timerQ' = Append(timerQ, i)
          /\ timerCalls' = [timerCalls EXCEPT ![i] = @ + 1]
          /\ aheadAt' = [aheadAt EXCEPT ![i] = workEnq]
    /\ UNCHANGED <<workEnq, workDone, doneAt, clockVars, events, originVars, hostVars,
                   measured, tti, effects, rafCalls>>

\* the event loop runs the oldest pending task, the setTimeout(..., 0) callback of
\* a chain
TimeoutCallback ==
    /\ timerQ # <<>>
    /\ Head(timerQ) > 0
    /\ LET i == Head(timerQ)
           ttiMs == Elapsed(now, T0[1])
       IN /\ timerQ' = Tail(timerQ)
          /\ tti' = SetState(tti, i, ttiMs)
          /\ log' = Append(log, [text |-> TtiLine(ttiMs), kind |-> "TTI",
                                 inst |-> i, at |-> now])
          /\ doneAt' = [doneAt EXCEPT ![i] = workDone]
    /\ UNCHANGED <<workEnq, workDone, aheadAt, clockVars, events, originVars, hostVars,
                   measured, ttfp, effects, rafQ, rafCalls, timerCalls>>

\* other code of the app queues a task behind everything already queued
EnqueueWork ==
    /\ events < MaxEvents
    /\ events' = events + 1
    /\ workEnq' = workEnq + 1
    /\ timerQ' = Append(timerQ, 0 - (workEnq + 1))
    /\ UNCHANGED <<clockVars, originVars, hostVars, hookVars, rafQ, rafCalls, timerCalls,
                   log, workDone, aheadAt, doneAt>>

\* the event loop runs the oldest pending task, an item of other work
WorkRun ==
    /\ timerQ # <<>>
    /\ Head(timerQ) < 0
    /\ timerQ' = Tail(timerQ)
    /\ workDone' = workDone \cup {0 - Head(timerQ)}
    /\ UNCHANGED <<clockVars, events, originVars, hostVars, hookVars, rafQ, rafCalls,
                   timerCalls, log, workEnq, aheadAt, doneAt>>

\* ---- specifications ------------------------------------------------------

Next ==
    \/ Tick
    \/ ClockAdjust
    \/ SetPerfT0
    \/ ModuleLoad
    \/ Mount
    \/ Unmount
    \/ EffectCallback
    \/ Rerender
    \/ RafCallback
    \/ TimeoutCallback
    \/ EnqueueWork
    \/ WorkRun

Spec == Init /\ [][Next]_vars

\* the compositor never fires: RafCallback is never taken.  setTimeout is called
\* only by RafCallback, so TimeoutCallback is never enabled either and is left out.
PaintStallNext ==
    \/ Tick
    \/ ClockAdjust
    \/ SetPerfT0
    \/ ModuleLoad
    \/ Mount
    \/ Unmount
    \/ EffectCallback
    \/ Rerender
    \/ EnqueueWork
    \/ WorkRun

PaintStallSpec == Init /\ [][PaintStallNext]_vars

\* the deferred task never fires: every action but TimeoutCallback
TimerStallNext ==
    \/ Tick
    \/ ClockAdjust
    \/ SetPerfT0
    \/ ModuleLoad
    \/ Mount
    \/ Unmount
    \/ EffectCallback
    \/ Rerender
    \/ RafCallback
    \/ EnqueueWork
    \/ WorkRun

TimerStallSpec == Init /\ [][TimerStallNext]_vars

\* the compositor tick and the event loop run every callback given to them
LiveSpec == Spec /\ WF_vars(RafCallback) /\ WF_vars(TimeoutCallback) /\ WF_vars(WorkRun)

\* ---- observations --------------------------------------------------------

\* instance i has a callback pending in queue q
Pending(q, i) == \E n \in 1..Len(q) : q[n] = i

\* positions of the log lines of kind k produced by instance i's chain
LinesOf(k, i) == {n \in 1..Len(log) : log[n].kind = k /\ log[n].inst = i}

\* lines of kind k in the log
LinesOfKind(k) == {n \in 1..Len(log) : log[n].kind = k}

\* the scheduler state of instance i's chain
State(i) ==
    IF ~measured[i] THEN "Idle"
    ELSE IF Pending(rafQ, i) THEN "AwaitingPaint"
    ELSE IF Pending(timerQ, i) THEN "AwaitingIdle"
    ELSE "Done"

\* what the mounted App shows
Display == PerfBanner(ttfp[mounted], tti[mounted])

\* state-setter calls that changed what an App instance shows (each slot is set
\* at most once per instance)
DisplayUpdates ==
    Cardinality({i \in Instances : ttfp[i] # <<>>})
    + Cardinality({i \in Instances : tti[i] # <<>>})

RECURSIVE SumCalls(_, _)
SumCalls(f, S) ==
    IF S = {} THEN 0
    ELSE LET i == CHOOSE x \in S : TRUE IN f[i] + SumCalls(f, S \ {i})

\* ---- claims --------------------------------------------------------------

\* C1: once an instance's guard flag is set, a further run of the effect on it
\* schedules nothing, logs nothing and leaves both durations as they were; the
\* instance's effect schedules exactly one paint continuation and its chain
\* emits at most one TTFP and one TTI line, exactly one of each once Done.
C1_TriggerIdempotent ==
    /\ [][\A i \in Instances :
            (effects'[i] = effects[i] + 1 /\ measured[i]) =>
                UNCHANGED <<measured, rafQ, timerQ, rafCalls, timerCalls, log, ttfp, tti>>]_vars
    /\ [](\A i \in Instances :
            /\ rafCalls[i] = (IF measured[i] THEN 1 ELSE 0)
            /\ timerCalls[i] <= 1
            /\ Cardinality(LinesOf("TTFP", i)) <= 1
            /\ Cardinality(LinesOf("TTI", i)) <= 1
            /\ State(i) = "Done" =>
                 Cardinality(LinesOf("TTFP", i)) = 1 /\ Cardinality(LinesOf("TTI", i)) = 1)

\* the effect has run twice on one instance before its paint continuation fired
C1_Witness ==
    \E i \in Instances :
        effects[i] >= 2 /\ State(i) = "AwaitingPaint" /\ rafCalls[i] = 1 /\ Len(rafQ) = 1

\* C2: over the whole process, whatever mounts, unmounts and re-renders happen,
\* at most one paint continuation is scheduled and at most one TTFP line and
\* one TTI line are emitted.
C2_OncePerProcess ==
    /\ SumCalls(rafCalls, Instances) <= 1
    /\ Cardinality(LinesOfKind("TTFP")) <= 1
    /\ Cardinality(LinesOfKind("TTI")) <= 1

\* C3: a recorded duration is the clock at the firing of its continuation minus
\* T0, an integer: in the ttfp / tti state and in the value the line carries.
C3_ElapsedIsNowMinusOrigin ==
    /\ \A n \in 1..Len(log) :
          LET e == log[n]
              slot == IF e.kind = "TTFP" THEN ttfp[e.inst] ELSE tti[e.inst]
          IN slot # <<>> => slot[1] = e.at - T0[1] /\ slot[1] \in Int
    /\ \A i \in Instances :
          /\ ttfp[i] # <<>> => LinesOf("TTFP", i) # {}
          /\ tti[i] # <<>> => LinesOf("TTI", i) # {}

\* T0 = 1000, paint at 1142, idle at 1148: 142 and 148
C3_Witness ==
    /\ T0 = <<1000>>
    /\ \E i \in Instances :
          /\ ttfp[i] = <<142>> /\ tti[i] = <<148>>
          /\ \E n \in LinesOf("TTFP", i) : log[n].at = 1142
          /\ \E n \in LinesOf("TTI", i) : log[n].at = 1148

\* C4: in a completed session interactiveElapsed >= firstPaintElapsed, whatever
\* the wall clock does between the two checkpoints.
C4_IdleNotBeforePaint ==
    \A i \in Instances :
        (ttfp[i] # <<>> /\ tti[i] # <<>>) => tti[i][1] >= ttfp[i][1]

\* C5: the idle continuation is scheduled only from inside the paint
\* continuation: tti set implies ttfp set, a setTimeout call of an instance
\* comes after its TTFP line, and every TTI line follows the TTFP line of its
\* chain.
C5_PaintBeforeIdle ==
    \A i \in Instances :
        /\ tti[i] # <<>> => ttfp[i] # <<>>
        /\ timerCalls[i] <= Cardinality(LinesOf("TTFP", i))
        /\ \A n \in LinesOf("TTI", i) : \E m \in LinesOf("TTFP", i) : m < n

\* a chain that ran both checkpoints on a mounted instance
C5_Witness ==
    \E i \in Instances :
        /\ ttfp[i] # <<>> /\ tti[i] # <<>>
        /\ LinesOf("TTFP", i) # {} /\ LinesOf("TTI", i) # {}

\* C6: once an instance's chain is armed, and the two primitives run every
\* continuation given to them, the chain reaches Done with both durations
\* computed and both lines emitted, whatever is interleaved (re-render, further
\* effect runs, unmount of the instance).
C6_ArmedLeadsToDone ==
    \A i \in Instances :
        measured[i] ~> (/\ State(i) = "Done"
                        /\ Cardinality(LinesOf("TTFP", i)) = 1
                        /\ Cardinality(LinesOf("TTI", i)) = 1)

\* a chain whose instance was unmounted before the paint checkpoint, and that
\* still emitted both lines
C6_Witness ==
    \E i \in Instances :
        /\ measured[i] /\ mounted # i /\ ttfp[i] = <<>>
        /\ State(i) = "Done"
        /\ LinesOf("TTFP", i) # {} /\ LinesOf("TTI", i) # {}

\* C7: when the compositor never runs a paint continuation, both slots of the
\* mounted App show "measuring...", no line is logged and no idle continuation
\* is scheduled.
C7_PaintStallShowsMeasuring ==
    /\ mounted # 0 => Display = <<"TTFP: measuring...", "TTI:  measuring...">>
    /\ \A i \in Instances : ttfp[i] = <<>> /\ tti[i] = <<>> /\ timerCalls[i] = 0
    /\ log = <<>>
    /\ \A i \in Instances : ~Pending(timerQ, i)

\* an armed, mounted instance waiting for a paint continuation while the clock moves
C7_Witness ==
    /\ mounted # 0
    /\ State(mounted) = "AwaitingPaint"
    /\ T0 # <<>> /\ now > T0[1]

\* C8 as stated: when the deferred task never fires, both slots show
\* "measuring..." and no line is logged.
C8_StallShowsMeasuring ==
    /\ mounted # 0 => Display = <<"TTFP: measuring...", "TTI:  measuring...">>
    /\ log = <<>>

\* C8 amended: when the deferred task never fires, the TTI slot shows
\* "measuring..." and no TTI line is logged; a chain stalled in AwaitingIdle has
\* logged its TTFP line, and its TTFP slot, when its instance is mounted, shows
\* the measured value.
C8_TimerStallKeepsTtiMeasuring ==
    /\ mounted # 0 => Display[2] = "TTI:  measuring..."
    /\ LinesOfKind("TTI") = {}
    /\ \A i \in Instances :
          /\ tti[i] = <<>>
          /\ State(i) # "Done"
          /\ State(i) = "AwaitingIdle" =>
                \E n \in LinesOf("TTFP", i) :
                    mounted = i => Display[1] = "TTFP: " \o ToString(log[n].at - T0[1]) \o " ms"

\* a mounted instance stalled in AwaitingIdle, its TTFP shown
C8_Witness ==
    /\ mounted # 0
    /\ State(mounted) = "AwaitingIdle"
    /\ ttfp[mounted] # <<>>
    /\ Display[1] # "TTFP: measuring..."

\* C9: the display is updated twice in all, and never after the second update.
C9_TwoDisplayUpdates == DisplayUpdates <= 2

\* C10 as stated: the lines are exactly "TTFP: <N>ms" and "TTI: <N>ms".
C10_BareLines ==
    \A n \in 1..Len(log) :
        log[n].text = (IF log[n].kind = "TTFP"
                       THEN "TTFP: " \o ToString(log[n].at - T0[1]) \o "ms"
                       ELSE "TTI: " \o ToString(log[n].at - T0[1]) \o "ms")

\* C10 amended: each computed duration N produces one line, exactly
\* "[PERF] TTFP: <N>ms" for the paint checkpoint and "[PERF] TTI:  <N>ms" (two
\* spaces) for the idle checkpoint; T0 = 1000, paint at 1142, idle at 1148 give
\* "[PERF] TTFP: 142ms" and "[PERF] TTI:  148ms".
C10_PerfLines ==
    /\ \A n \in 1..Len(log) :
          log[n].text = (IF log[n].kind = "TTFP"
                         THEN "[PERF] TTFP: " \o ToString(log[n].at - T0[1]) \o "ms"
                         ELSE "[PERF] TTI:  " \o ToString(log[n].at - T0[1]) \o "ms")
    /\ \A i \in Instances :
          /\ Cardinality(LinesOf("TTFP", i)) = timerCalls[i]
          /\ Cardinality(LinesOf("TTFP", i)) <= 1
          /\ Cardinality(LinesOf("TTI", i)) <= 1
    /\ (/\ T0 = <<1000>> /\ Len(log) = 2
        /\ log[1].kind = "TTFP" /\ log[1].at = 1142
        /\ log[2].kind = "TTI" /\ log[2].at = 1148) =>
          log[1].text = "[PERF] TTFP: 142ms" /\ log[2].text = "[PERF] TTI:  148ms"

\* the run T0 = 1000, paint at 1142, idle at 1148
C10_Witness ==
    /\ T0 = <<1000>>
    /\ Len(log) = 2
    /\ log[1].at = 1142 /\ log[2].at = 1148
    /\ log[1].text = "[PERF] TTFP: 142ms"
    /\ log[2].text = "[PERF] TTI:  148ms"

\* how many callbacks of instance i are pending in queue q
PendingCount(q, i) == Cardinality({n \in 1..Len(q) : q[n] = i})

\* C11: every item of other work enqueued before an idle continuation was
\* scheduled has run when that continuation executes and computes the TTI.
C11_QueuedWorkRunsFirst ==
    \A i \in Instances :
        LinesOf("TTI", i) # {} => (1..aheadAt[i]) \subseteq doneAt[i]

\* an idle continuation that was scheduled behind two items of work and has run
C11_Witness ==
    \E i \in Instances :
        /\ aheadAt[i] >= 2
        /\ LinesOf("TTI", i) # {}
        /\ tti[i] # <<>>

\* C12: T0 is the stored global when it is set at the time of the read and the
\* clock at the read otherwise; either way it is a number, and so is every
\* duration computed from it.
C12_OriginFallback ==
    /\ [][(T0 = <<>> /\ T0' # <<>>) =>
            T0' = (IF perfT0 # <<>> THEN perfT0 ELSE <<now>>)]_vars
    /\ [](/\ T0 # <<>> => T0[1] \in Int
          /\ \A i \in Instances :
                /\ ttfp[i] # <<>> => ttfp[i][1] \in Int
                /\ tti[i] # <<>> => tti[i][1] \in Int)

\* the global was never set, T0 fell back to the clock, which moved on before a
\* duration was computed
C12_Witness ==
    /\ perfT0 = <<>>
    /\ T0 # <<>>
    /\ \E i \in Instances : ttfp[i] # <<>> /\ ttfp[i][1] # 0

\* C13: the effect checks and sets the guard flag in the step that calls
\* requestAnimationFrame; an instance's flag is never cleared; whenever a
\* continuation of an instance is pending or has fired its flag is set; once
\* its chain is Done its flag and durations no longer change.
C13_GuardSetBeforeScheduling ==
    /\ [][\A i \in Instances :
            /\ measured[i] => measured'[i]
            /\ rafCalls'[i] # rafCalls[i] => ~measured[i] /\ measured'[i]
            /\ State(i) = "Done" =>
                 measured'[i] = measured[i] /\ ttfp'[i] = ttfp[i] /\ tti'[i] = tti[i]]_vars
    /\ [](\A i \in Instances :
            (\/ Pending(rafQ, i) \/ Pending(timerQ, i)
             \/ rafCalls[i] > 0 \/ timerCalls[i] > 0
             \/ LinesOf("TTFP", i) # {} \/ LinesOf("TTI", i) # {}) => measured[i])

\* a Done chain on whose instance the effect has run again
C13_Witness ==
    \E i \in Instances :
        /\ State(i) = "Done" /\ mounted = i
        /\ effects[i] >= 2
        /\ ttfp[i] # <<>> /\ tti[i] # <<>>

\* C14: once a duration has been set, nothing later in the process (remount
\* included) changes it or makes it absent again: what the mounted App holds
\* agrees with every value an earlier instance held.
C14_DurationsImmutable ==
    \A i \in Instances :
        (mounted # 0 /\ i < mounted) =>
            /\ ttfp[i] # <<>> => ttfp[mounted] = ttfp[i]
            /\ tti[i] # <<>> => tti[mounted] = tti[i]

\* C15: T0 never changes once read, also when global.__PERF_T0 is written
\* later, and the paint and the idle checkpoint subtract that same value.
C15_OriginFixed ==
    /\ [][T0 # <<>> => T0' = T0]_vars
    /\ [](\A i \in Instances :
            /\ \A n \in LinesOf("TTFP", i) : ttfp[i] # <<>> => log[n].at - ttfp[i][1] = T0[1]
            /\ \A n \in LinesOf("TTI", i) : tti[i] # <<>> => log[n].at - tti[i][1] = T0[1])

\* the global was written after T0 was read, with another value, and both
\* durations were computed
C15_Witness ==
    /\ T0 # <<>> /\ perfT0 # <<>> /\ perfT0 # T0
    /\ \E i \in Instances : ttfp[i] # <<>> /\ tti[i] # <<>>

C17_NonNegative ==
    /\ \A n \in 1..Len(log) : log[n].at - T0[1] >= 0
    /\ \A i \in Instances :
          /\ ttfp[i] # <<>> => ttfp[i][1] >= 0
          /\ tti[i] # <<>> => tti[i][1] >= 0

\* C18: a chain has at most one continuation pending, never a paint and an idle
\* continuation together, and none before it is armed or after its idle
\* continuation has run.
C18_OnePendingPerChain ==
    \A i \in Instances :
        /\ PendingCount(rafQ, i) + PendingCount(timerQ, i) <= 1
        /\ ~measured[i] => ~Pending(rafQ, i) /\ ~Pending(timerQ, i)
        /\ LinesOf("TTI", i) # {} => ~Pending(rafQ, i) /\ ~Pending(timerQ, i)

\* two chains in flight, one awaiting paint and one awaiting idle
C18_Witness ==
    \E i, j \in Instances :
        /\ i # j
        /\ State(i) = "AwaitingIdle"
        /\ State(j) = "AwaitingPaint"

====
